---- MODULE Spec2Model ----
(***************************************************************************)
(* StorageClient (src/gcp/storage/client.rs): an authenticated HTTP client *)
(* holding a cached oauth2 Token behind a tokio::sync::RwLock.  Callers    *)
(* are concurrent tasks sharing one client; each public operation first    *)
(* runs refresh_token, then sends one request, then classifies the         *)
(* response.                                                               *)
(***************************************************************************)
EXTENDS Integers, Sequences, FiniteSets, TLC

\* ------------------------------------------------------------------ bounds
MaxCalls == 1
MaxTime == 1
MaxChunks == 2

\* The concurrent tasks sharing the client.
Callers == {"c1", "c2"}

\* ------------------------------------------------------- program constants
HTTP_SUCCESS_LO == 200
HTTP_SUCCESS_HI == 299
NOT_FOUND == 404

\* ------------------------------------------------------------ input domains
Ops == {"delete", "post", "get_as_stream", "get_as_json"}
Urls == {"u1", "u2"}
\* Lifetime of a token handed back by the generator, counted from the mint:
\* 0 is a token that is already expired when it arrives.
Lifetimes == {0, 1}

NoCaller == "none"
NoUrl == "none"
NoText == ""
NoType == "none"
NoToken == [id |-> 0, exp |-> 0]
NoResponse ==
    [status |-> 0, body |-> NoText, textOk |-> TRUE, json |-> "none", chunks |-> <<>>,
     failAt |-> 0]

\* Raw transport responses: a status, the body text, whether reading the body
\* succeeds, what the body is as a JSON envelope, the chunks the body arrives
\* in and the chunk whose read fails (0: none).
Responses ==
    {[status |-> s, body |-> "{data}", textOk |-> TRUE, json |-> "success",
      chunks |-> <<1>>, failAt |-> 0] : s \in {200, 299}}
    \cup {[status |-> 200, body |-> "{error}", textOk |-> TRUE, json |-> "error",
           chunks |-> <<1>>, failAt |-> 0],
          [status |-> 200, body |-> "{data}", textOk |-> FALSE, json |-> "success",
           chunks |-> <<1>>, failAt |-> 1],
          [status |-> 200, body |-> "garbage", textOk |-> TRUE, json |-> "undecodable",
           chunks |-> <<1>>, failAt |-> 0],
          [status |-> 404, body |-> "gone", textOk |-> TRUE, json |-> "undecodable",
           chunks |-> <<1>>, failAt |-> 0],
          [status |-> 500, body |-> "boom", textOk |-> TRUE, json |-> "undecodable",
           chunks |-> <<1>>, failAt |-> 0],
          [status |-> 500, body |-> "boom", textOk |-> FALSE, json |-> "undecodable",
           chunks |-> <<1>>, failAt |-> 1],
          [status |-> 300, body |-> "moved", textOk |-> TRUE, json |-> "undecodable",
           chunks |-> <<1>>, failAt |-> 0],
          [status |-> 199, body |-> "early", textOk |-> TRUE, json |-> "undecodable",
           chunks |-> <<1>>, failAt |-> 0]}

\* Successful responses to get_as_stream whose body arrives in n chunks, read
\* whole or failing at chunk f.
StreamResponses ==
    UNION {{[status |-> 200, body |-> "chunked", textOk |-> (f = 0), json |-> "undecodable",
             chunks |-> [i \in 1..n |-> n - i + 1], failAt |-> f] : f \in 0..n} :
           n \in 0..MaxChunks}

\* What the transport may answer to an operation.
ResponsesFor(o) == IF o = "get_as_stream" THEN Responses \cup StreamResponses ELSE Responses

\* ----------------------------------------------------------------- results
\* StorageResult<_>: Ok carrying the passed-through response, or one Error.
Res(kind, u, body, ty, resp) ==
    [kind |-> kind, url |-> u, body |-> body, ty |-> ty, resp |-> resp]

NoResult == Res("none", NoUrl, NoText, NoType, NoResponse)
Ok(resp) == Res("Ok", NoUrl, NoText, NoType, resp)
GcsTokenError == Res("GcsTokenError", NoUrl, NoText, NoType, NoResponse)
GcsHttpError == Res("GcsHttpError", NoUrl, NoText, NoType, NoResponse)
GcsResourceNotFound(u) == Res("GcsResourceNotFound", u, NoText, NoType, NoResponse)
GcsUnexpectedResponse(u, body) == Res("GcsUnexpectedResponse", u, body, NoType, NoResponse)
GcsUnexpectedJson(ty, u, body) == Res("GcsUnexpectedJson", u, body, ty, NoResponse)

\* ------------------------------------------------------------------- token
\* Token::is_valid: the token's own expiry predicate.
is_valid(t, time) == t.exp > time

\* Token::access_token: the bearer string of the token.
access_token(t) == t.id

\* ----------------------------------------------------- response handling
\* The 404 case left out.
success_response_No404(u, response) ==
    IF response.status >= HTTP_SUCCESS_LO /\ response.status <= HTTP_SUCCESS_HI
    THEN Ok(response)
    ELSE IF response.textOk
         THEN GcsUnexpectedResponse(u, response.body)
         ELSE GcsHttpError

\* StorageClient::success_response.
success_response(u, response) ==
    IF response.status >= HTTP_SUCCESS_LO /\ response.status <= HTTP_SUCCESS_HI
    THEN Ok(response)
    ELSE IF response.status = NOT_FOUND
         THEN GcsResourceNotFound(u)
         ELSE IF response.textOk
              THEN GcsUnexpectedResponse(u, response.body)
              ELSE GcsHttpError

\* reqwest::Response::json into DeserializedResponse<R>: reading the body or
\* decoding it can fail.
json_decodes(response) == response.textOk /\ response.json # "undecodable"

\* DeserializedResponse::into_result: the envelope carries a success payload
\* or an error marker.
into_result(response) ==
    IF response.json = "success"
    THEN [ok |-> TRUE, value |-> response.body]
    ELSE [ok |-> FALSE, value |-> response.body]

\* The value a decoded success envelope yields.
OkJson(ty, value) == Res("Ok", NoUrl, value, ty, NoResponse)

\* Ok(()) of delete and post.
OkUnit == Ok(NoResponse)

\* The classification's error swallowed.
delete_result_Swallowed(u, r) == OkUnit

\* StorageClient::delete, from the value r of success_response on.
delete_result(u, r) == IF r.kind = "Ok" THEN OkUnit ELSE r

\* StorageClient::post, from the value r of success_response on.
post_result(u, r) == IF r.kind = "Ok" THEN OkUnit ELSE r

\* StorageClient::get_as_stream, from the value r of success_response on:
\* the response's byte stream.
get_as_stream_result(u, r) == r

\* reqwest::Response::bytes_stream: the chunks in order up to the end of the
\* body, or up to the chunk whose read fails, which ends the stream with the
\* transport's error.
bytes_stream(response) ==
    IF response.failAt = 0
    THEN [i \in 1..Len(response.chunks) |-> [ok |-> TRUE, data |-> response.chunks[i]]]
    ELSE [i \in 1..response.failAt |->
            IF i < response.failAt
            THEN [ok |-> TRUE, data |-> response.chunks[i]]
            ELSE [ok |-> FALSE, data |-> 0]]

\* A failed chunk passed on as if it were data.
stream_item_ErrorAsData(item) == [kind |-> "Ok", data |-> item.data]

\* get_as_stream: .map_err(super::Error::GcsHttpError) on one item of the
\* byte stream.
stream_item(item) ==
    IF item.ok
    THEN [kind |-> "Ok", data |-> item.data]
    ELSE [kind |-> "GcsHttpError", data |-> 0]

\* The stream has no further item.
StreamEnd == [kind |-> "End", data |-> 0]

\* An error envelope taken for a success.
get_as_json_result_ErrorAsSuccess(ty, u, r) ==
    IF r.kind # "Ok"
    THEN r
    ELSE IF ~json_decodes(r.resp)
         THEN GcsHttpError
         ELSE OkJson(ty, into_result(r.resp).value)

\* A decoding failure reported as a JSON error.
get_as_json_result_DecodeAsJson(ty, u, r) ==
    IF r.kind # "Ok"
    THEN r
    ELSE IF ~json_decodes(r.resp)
         THEN GcsUnexpectedJson(ty, u, r.resp.body)
         ELSE LET d == into_result(r.resp)
              IN IF d.ok THEN OkJson(ty, d.value)
                 ELSE GcsUnexpectedJson(ty, u, d.value)

\* StorageClient::get_as_json, from the value r of success_response on.
get_as_json_result(ty, u, r) ==
    IF r.kind # "Ok"
    THEN r
    ELSE IF ~json_decodes(r.resp)
         THEN GcsHttpError
         ELSE LET d == into_result(r.resp)
              IN IF d.ok THEN OkJson(ty, d.value)
                 ELSE GcsUnexpectedJson(ty, u, d.value)

OpResult(o, ty, u, r) ==
    CASE o = "delete" -> delete_result(u, r)
      [] o = "post" -> post_result(u, r)
      [] o = "get_as_stream" -> get_as_stream_result(u, r)
      [] o = "get_as_json" -> get_as_json_result(ty, u, r)

\* ------------------------------------------------------------------- state
VARIABLES
    client,     \* "none" | "constructing" | "ready" | "failed"
    newGen,     \* generator calls made by new
    token,      \* the Token in the RwLock
    now,        \* the clock the validity predicate reads
    nextId,     \* identity of the next token the generator mints
    readers,    \* callers holding a read guard
    writer,     \* the caller holding the write guard, or NoCaller
    waitq,      \* callers queued on the lock, first come first served
    pc,         \* each caller's position
    args,       \* each call's operation, url and result type
    calls,      \* calls each caller has completed
    minted,     \* the local t of the refresh branch
    tokRes,     \* what refresh_token returned to the operation
    req,        \* the request the operation sent
    resp,       \* the response the transport delivered
    class,      \* what success_response made of it
    result,     \* what the operation returned
    items,      \* what the caller has drawn from the returned stream
    log,        \* the steps of the call in progress, in order
    mints       \* tokens the generator handed to refresh_token calls

vars == <<client, newGen, token, now, nextId, readers, writer, waitq, pc, args,
          calls, minted, tokRes, req, resp, class, result, items, log, mints>>

lockVars == <<readers, writer, waitq>>
callVars == <<args, calls, req, resp, class, result, items>>

ResultTypes == {"Object"}
NoArgs == [op |-> "none", url |-> NoUrl, ty |-> NoType]
Args ==
    {[op |-> o, url |-> u, ty |-> NoType] : o \in Ops \ {"get_as_json"}, u \in Urls}
    \cup {[op |-> "get_as_json", url |-> u, ty |-> ty] : u \in Urls, ty \in ResultTypes}

NoTokRes == [kind |-> "none", at |-> 0, valid |-> FALSE, path |-> "none"]
NoReq == [sent |-> FALSE, bearer |-> 0, url |-> NoUrl, op |-> "none"]

Init ==
    /\ client = "none"
    /\ newGen = 0
    /\ token = NoToken
    /\ now = 0
    /\ nextId = 1
    /\ readers = {}
    /\ writer = NoCaller
    /\ waitq = <<>>
    /\ pc = [c \in Callers |-> "idle"]
    /\ args = [c \in Callers |-> NoArgs]
    /\ calls = [c \in Callers |-> 0]
    /\ minted = [c \in Callers |-> NoToken]
    /\ tokRes = [c \in Callers |-> NoTokRes]
    /\ req = [c \in Callers |-> NoReq]
    /\ resp = [c \in Callers |-> NoResponse]
    /\ class = [c \in Callers |-> NoResult]
    /\ result = [c \in Callers |-> NoResult]
    /\ items = [c \in Callers |-> <<>>]
    /\ log = [c \in Callers |-> <<>>]
    /\ mints = {}

\* -------------------------------------------------------------- the lock
\* tokio::sync::RwLock::read: granted when no writer holds the lock and no
\* earlier request is queued.
ReadAvailable(c) ==
    /\ writer = NoCaller
    /\ waitq = <<>> \/ Head(waitq) = c

\* Write access granted over the heads of the readers.
WriteAvailable_OverReaders(c) ==
    /\ writer = NoCaller
    /\ waitq = <<>> \/ Head(waitq) = c

\* tokio::sync::RwLock::write: granted when no guard at all is held and no
\* earlier request is queued.
WriteAvailable(c) ==
    /\ writer = NoCaller
    /\ readers = {}
    /\ waitq = <<>> \/ Head(waitq) = c

\* The queue once c's request is granted.
Dequeued(c) == IF waitq # <<>> /\ Head(waitq) = c THEN Tail(waitq) ELSE waitq

\* A read guard that outlives the function.
Dropped_Leaked(c) == readers

\* refresh_token returns: its read guard t goes out of scope.
Dropped(c) == readers \ {c}

\* ------------------------------------------------------------ construction
\* A client built although the generator failed.
NewOutcome_AlwaysReady(ok) == "ready"

\* StorageClient::new: `?` on the generator's answer, then Ok(Self {..}).
NewOutcome(ok) == IF ok THEN "ready" ELSE "failed"

\* StorageClient::new, up to the generator call.
NewCall ==
    /\ client = "none"
    /\ client' = "constructing"
    /\ newGen' = newGen + 1
    /\ UNCHANGED <<token, now, nextId, lockVars, pc, callVars, minted, tokRes, log, mints>>

\* StorageClient::new, from the generator's answer on.
NewAnswer ==
    /\ client = "constructing"
    /\ \E ok \in BOOLEAN, life \in Lifetimes :
          /\ client' = NewOutcome(ok)
          /\ IF ok
             THEN /\ token' = [id |-> nextId, exp |-> now + life]
                  /\ nextId' = nextId + 1
             ELSE UNCHANGED <<token, nextId>>
    /\ UNCHANGED <<newGen, now, lockVars, pc, callVars, minted, tokRes, log, mints>>

\* ----------------------------------------------------------- the operations
\* A caller enters delete, post, get_as_stream or get_as_json.
Call(c) ==
    /\ client = "ready"
    /\ pc[c] = "idle"
    /\ calls[c] < MaxCalls
    /\ \E a \in Args : args' = [args EXCEPT ![c] = a]
    /\ pc' = [pc EXCEPT ![c] = "start"]
    /\ UNCHANGED <<client, newGen, token, now, nextId, lockVars, calls, minted,
                   tokRes, req, resp, class, result, items, log, mints>>

\* refresh_token: let t = self.token.read().await
ReadToken(c) ==
    /\ pc[c] \in {"start", "read_wait"}
    /\ IF ReadAvailable(c)
       THEN /\ readers' = readers \cup {c}
            /\ waitq' = Dequeued(c)
            /\ pc' = [pc EXCEPT ![c] = "have_read"]
       ELSE /\ pc[c] = "start"
            /\ waitq' = Append(waitq, c)
            /\ pc' = [pc EXCEPT ![c] = "read_wait"]
            /\ UNCHANGED readers
    /\ UNCHANGED <<client, newGen, token, now, nextId, writer, callVars, minted,
                   tokRes, log, mints>>

\* The cached token reused without asking it.
TokenUsable_Always(t, time) == TRUE

\* refresh_token: the test of `if t.is_valid()`.
TokenUsable(t, time) == is_valid(t, time)

\* The fast path writing to the cache.
CheckValid_TouchesCache(c) ==
    /\ pc[c] = "have_read"
    /\ IF TokenUsable(token, now)
       THEN /\ tokRes' = [tokRes EXCEPT ![c] =
                    [kind |-> "Ok", at |-> access_token(token),
                     valid |-> is_valid(token, now), path |-> "fast"]]
            /\ readers' = Dropped(c)
            /\ pc' = [pc EXCEPT ![c] = "tok_ret"]
            /\ log' = [log EXCEPT ![c] = Append(@, "token")]
            /\ token' = [token EXCEPT !.exp = now + 2]
       ELSE /\ pc' = [pc EXCEPT ![c] = "minting"]
            /\ log' = [log EXCEPT ![c] = Append(@, "gen")]
            /\ UNCHANGED <<tokRes, readers, token>>
    /\ UNCHANGED <<client, newGen, now, nextId, writer, waitq, callVars,
                   minted, mints>>

\* refresh_token: if t.is_valid() { Ok(t.access_token()) } else { the
\* generator is called }.  The read guard t lives to the end of the function:
\* it is dropped on the fast path's return and kept on the refresh branch.
CheckValid(c) ==
    /\ pc[c] = "have_read"
    /\ IF TokenUsable(token, now)
       THEN /\ tokRes' = [tokRes EXCEPT ![c] =
                    [kind |-> "Ok", at |-> access_token(token),
                     valid |-> is_valid(token, now), path |-> "fast"]]
            /\ readers' = Dropped(c)
            /\ pc' = [pc EXCEPT ![c] = "tok_ret"]
            /\ log' = [log EXCEPT ![c] = Append(@, "token")]
       ELSE /\ pc' = [pc EXCEPT ![c] = "minting"]
            /\ log' = [log EXCEPT ![c] = Append(@, "gen")]
            /\ UNCHANGED <<tokRes, readers>>
    /\ UNCHANGED <<client, newGen, token, now, nextId, writer, waitq, callVars,
                   minted, mints>>

\* The cache emptied when the generator fails.
GenAnswer_ClearsOnError(c) ==
    /\ pc[c] = "minting"
    /\ \E ok \in BOOLEAN, life \in Lifetimes :
          IF ok
          THEN /\ minted' = [minted EXCEPT ![c] = [id |-> nextId, exp |-> now + life]]
               /\ mints' = mints \cup {[id |-> nextId, exp |-> now + life]}
               /\ nextId' = nextId + 1
               /\ pc' = [pc EXCEPT ![c] = "minted"]
               /\ UNCHANGED <<tokRes, readers, log, token>>
          ELSE /\ tokRes' = [tokRes EXCEPT ![c] =
                       [kind |-> "Err", at |-> 0, valid |-> FALSE, path |-> "error"]]
               /\ readers' = Dropped(c)
               /\ pc' = [pc EXCEPT ![c] = "tok_ret"]
               /\ log' = [log EXCEPT ![c] = Append(@, "token_err")]
               /\ token' = NoToken
               /\ UNCHANGED <<minted, mints, nextId>>
    /\ UNCHANGED <<client, newGen, now, writer, waitq, callVars>>

\* refresh_token: the generator answers; an error leaves through `?`, which
\* drops the read guard.
GenAnswer(c) ==
    /\ pc[c] = "minting"
    /\ \E ok \in BOOLEAN, life \in Lifetimes :
          IF ok
          THEN /\ minted' = [minted EXCEPT ![c] = [id |-> nextId, exp |-> now + life]]
               /\ mints' = mints \cup {[id |-> nextId, exp |-> now + life]}
               /\ nextId' = nextId + 1
               /\ pc' = [pc EXCEPT ![c] = "minted"]
               /\ UNCHANGED <<tokRes, readers, log>>
          ELSE /\ tokRes' = [tokRes EXCEPT ![c] =
                       [kind |-> "Err", at |-> 0, valid |-> FALSE, path |-> "error"]]
               /\ readers' = Dropped(c)
               /\ pc' = [pc EXCEPT ![c] = "tok_ret"]
               /\ log' = [log EXCEPT ![c] = Append(@, "token_err")]
               /\ UNCHANGED <<minted, mints, nextId>>
    /\ UNCHANGED <<client, newGen, token, now, writer, waitq, callVars>>

\* refresh_token: *self.token.write().await = t; Ok(access_token).  The
\* request queues while any guard is held; once granted, the assignment runs
\* under the write guard, which is dropped at the end of the statement, and
\* the function returns, dropping the read guard.
WriteToken(c) ==
    /\ pc[c] \in {"minted", "write_wait", "writing"}
    /\ IF pc[c] = "writing"
       THEN /\ token' = minted[c]
            /\ writer' = NoCaller
            /\ readers' = Dropped(c)
            /\ tokRes' = [tokRes EXCEPT ![c] =
                    [kind |-> "Ok", at |-> access_token(minted[c]),
                     valid |-> is_valid(minted[c], now), path |-> "refresh"]]
            /\ pc' = [pc EXCEPT ![c] = "tok_ret"]
            /\ log' = [log EXCEPT ![c] = Append(@, "install") \o <<"token">>]
            /\ UNCHANGED waitq
       ELSE IF WriteAvailable(c)
            THEN /\ writer' = c
                 /\ waitq' = Dequeued(c)
                 /\ pc' = [pc EXCEPT ![c] = "writing"]
                 /\ UNCHANGED <<token, readers, tokRes, log>>
            ELSE /\ pc[c] = "minted"
                 /\ waitq' = Append(waitq, c)
                 /\ pc' = [pc EXCEPT ![c] = "write_wait"]
                 /\ UNCHANGED <<token, writer, readers, tokRes, log>>
    /\ UNCHANGED <<client, newGen, now, nextId, callVars, minted, mints>>

\* self.refresh_token().await? with an error: the operation returns it.
FailToken(c) ==
    /\ pc[c] = "tok_ret"
    /\ tokRes[c].kind = "Err"
    /\ result' = [result EXCEPT ![c] = GcsTokenError]
    /\ pc' = [pc EXCEPT ![c] = "done"]
    /\ UNCHANGED <<client, newGen, token, now, nextId, lockVars, args, calls,
                   minted, tokRes, req, resp, class, items, log, mints>>

\* A request sent without the call's token.
Bearer_None(c) == access_token(NoToken)

\* .bearer_auth(self.refresh_token().await?): the bearer of the request.
Bearer(c) == tokRes[c].at

\* .bearer_auth(access token) ... .send(): the request leaves.
Send(c) ==
    /\ pc[c] = "tok_ret"
    /\ tokRes[c].kind = "Ok"
    /\ req' = [req EXCEPT ![c] = [sent |-> TRUE, bearer |-> Bearer(c),
                                  url |-> args[c].url, op |-> args[c].op]]
    /\ pc' = [pc EXCEPT ![c] = "sent"]
    /\ log' = [log EXCEPT ![c] = Append(@, "send")]
    /\ UNCHANGED <<client, newGen, token, now, nextId, lockVars, args, calls,
                   minted, tokRes, resp, class, result, items, mints>>

\* A transport failure swallowed.
send_error_result_Suppressed == OkUnit

\* .send().await.map_err(super::Error::GcsHttpError)?
send_error_result == GcsHttpError

\* .send().await fails before any status arrives.
SendFails(c) ==
    /\ pc[c] = "sent"
    /\ result' = [result EXCEPT ![c] = send_error_result]
    /\ pc' = [pc EXCEPT ![c] = "done"]
    /\ log' = [log EXCEPT ![c] = Append(@, "send_err")]
    /\ UNCHANGED <<client, newGen, token, now, nextId, lockVars, args, calls,
                   minted, tokRes, req, resp, class, items, mints>>

\* The response arrives and the operation classifies and returns it.
Respond(c) ==
    /\ pc[c] = "sent"
    /\ \E r \in ResponsesFor(args[c].op) :
          /\ resp' = [resp EXCEPT ![c] = r]
          /\ class' = [class EXCEPT ![c] = success_response(args[c].url, r)]
          /\ result' = [result EXCEPT ![c] =
                 OpResult(args[c].op, args[c].ty, args[c].url, success_response(args[c].url, r))]
    /\ pc' = [pc EXCEPT ![c] = "done"]
    /\ log' = [log EXCEPT ![c] = Append(@, "classify")]
    /\ UNCHANGED <<client, newGen, token, now, nextId, lockVars, args, calls,
                   minted, tokRes, req, items, mints>>

\* The caller draws the next item of the stream get_as_stream returned; after
\* the last item the stream reports its end.
Poll(c) ==
    /\ pc[c] = "done"
    /\ args[c].op = "get_as_stream"
    /\ result[c].kind = "Ok"
    /\ IF items[c] = <<>> THEN TRUE ELSE items[c][Len(items[c])] # StreamEnd
    /\ LET st == bytes_stream(result[c].resp)
           n == Len(items[c])
       IN items' = [items EXCEPT ![c] =
              Append(@, IF n < Len(st) THEN stream_item(st[n + 1]) ELSE StreamEnd)]
    /\ UNCHANGED <<client, newGen, token, now, nextId, lockVars, pc, args, calls,
                   minted, tokRes, req, resp, class, result, log, mints>>

\* The caller takes the result; its next call starts afresh.
Return(c) ==
    /\ pc[c] = "done"
    /\ pc' = [pc EXCEPT ![c] = "idle"]
    /\ calls' = [calls EXCEPT ![c] = @ + 1]
    /\ args' = [args EXCEPT ![c] = NoArgs]
    /\ minted' = [minted EXCEPT ![c] = NoToken]
    /\ tokRes' = [tokRes EXCEPT ![c] = NoTokRes]
    /\ req' = [req EXCEPT ![c] = NoReq]
    /\ resp' = [resp EXCEPT ![c] = NoResponse]
    /\ class' = [class EXCEPT ![c] = NoResult]
    /\ result' = [result EXCEPT ![c] = NoResult]
    /\ items' = [items EXCEPT ![c] = <<>>]
    /\ log' = [log EXCEPT ![c] = <<>>]
    /\ UNCHANGED <<client, newGen, token, now, nextId, lockVars, mints>>

\* Time passes.
Tick ==
    /\ now < MaxTime
    /\ now' = now + 1
    /\ UNCHANGED <<client, newGen, token, nextId, lockVars, pc, callVars, minted,
                   tokRes, log, mints>>

\* The steps of a call in progress.
CallStep(c) ==
    \/ ReadToken(c)
    \/ CheckValid(c)
    \/ GenAnswer(c)
    \/ WriteToken(c)
    \/ FailToken(c)
    \/ Send(c)
    \/ SendFails(c)
    \/ Respond(c)

Next ==
    \/ NewCall
    \/ NewAnswer
    \/ Tick
    \/ \E c \in Callers : Call(c)
    \/ \E c \in Callers : CallStep(c)
    \/ \E c \in Callers : Poll(c)
    \/ \E c \in Callers : Return(c)

Spec == Init /\ [][Next]_vars

\* The runtime polls every task that can make progress, and the generator and
\* the transport answer.
FairSpec == Spec /\ \A c \in Callers : WF_vars(CallStep(c))

\* ------------------------------------------------------------ properties
Is2xx(r) == r.status >= 200 /\ r.status <= 299

\* The projection of a log onto some of its events.
Only(seq, evs) == SelectSeq(seq, LAMBDA e : e \in evs)

IsPrefix(a, b) == Len(a) <= Len(b) /\ \A i \in 1..Len(a) : a[i] = b[i]

\* C1: a refresh_token call that finds the cached token valid returns its
\* access token without a generator call, and a call that finds it invalid
\* and gets a token from the generator installs that token and returns.
C1_RefreshInstalls ==
    /\ [](\A c \in Callers : tokRes[c].path = "fast" => Only(log[c], {"gen"}) = <<>>)
    /\ \A c \in Callers :
          (pc[c] = "minted") ~> (pc[c] = "tok_ret" /\ tokRes[c].path = "refresh")

\* C2: no call waits forever on the token lock: whenever a caller is queued
\* for read or write access, some call in progress can still take a step.
C2_NoCallerStuck ==
    \A c \in Callers :
        pc[c] \in {"read_wait", "write_wait"} => ENABLED (\E d \in Callers : CallStep(d))

\* C3: while a caller's generator call is in flight, that caller holds
\* neither read nor write access to the cache.
C3_NoLockAcrossMint ==
    \A c \in Callers : pc[c] = "minting" => c \notin readers /\ writer # c

\* C4: once refresh calls have minted tokens and no call can take a further
\* step, the cache holds one of the minted tokens.
C4_LastWriteWins ==
    (mints # {} /\ ~ENABLED (\E d \in Callers : CallStep(d))) => token \in mints

C6_Classification ==
    \A c \in Callers :
        resp[c] # NoResponse =>
            LET r == resp[c]
                u == args[c].url
                k == class[c]
            IN /\ Is2xx(r) => k.kind = "Ok" /\ k.resp = r
               /\ r.status = 404 => k.kind = "GcsResourceNotFound" /\ k.url = u
               /\ (~Is2xx(r) /\ r.status # 404 /\ r.textOk) =>
                      k.kind = "GcsUnexpectedResponse" /\ k.url = u /\ k.body = r.body
               /\ (~Is2xx(r) /\ r.status # 404 /\ ~r.textOk) => k.kind = "GcsHttpError"
               /\ k.kind \in {"Ok", "GcsResourceNotFound", "GcsUnexpectedResponse",
                              "GcsHttpError"}

C6_Witness ==
    \E c, d \in Callers :
        /\ resp[c].status = 404 /\ class[c].kind = "GcsResourceNotFound"
        /\ resp[d].status = 500 /\ class[d].kind = "GcsUnexpectedResponse"
        /\ class[d].body = "boom"

\* C7: new calls the generator once; when that call fails no client exists
\* and nothing is cached, and a client that exists holds a token.
C7_NeverTokenless ==
    /\ newGen <= 1
    /\ client = "none" => newGen = 0
    /\ client # "none" => newGen = 1
    /\ client = "failed" => token = NoToken /\ \A c \in Callers : pc[c] = "idle" /\ calls[c] = 0
    /\ client = "ready" => token # NoToken /\ token.id >= 1
    /\ (\E c \in Callers : pc[c] # "idle") => client = "ready"

C7_Witness == client = "ready" /\ token.id = 1 /\ \E c \in Callers : pc[c] = "have_read"

\* C8: in every operation the token is acquired first, the request is sent
\* next with that call's access token as bearer, the response is classified
\* last; a failed token acquisition ends the operation with the token error
\* and without a request.
C8_OperationOrder ==
    \A c \in Callers :
        /\ IsPrefix(Only(log[c], {"token", "send", "classify"}), <<"token", "send", "classify">>)
        /\ req[c].sent => tokRes[c].kind = "Ok" /\ req[c].bearer = tokRes[c].at
                          /\ req[c].url = args[c].url /\ req[c].op = args[c].op
        /\ resp[c] # NoResponse => req[c].sent
        /\ tokRes[c].kind = "Err" =>
              /\ ~req[c].sent
              /\ resp[c] = NoResponse
              /\ pc[c] = "done" => result[c] = GcsTokenError
        /\ result[c].kind = "GcsTokenError" => tokRes[c].kind = "Err"

C8_Witness ==
    \E c, d \in Callers :
        /\ pc[c] = "done" /\ log[c] = <<"token", "send", "classify">>
        /\ args[c].op = "get_as_json"
        /\ pc[d] = "done" /\ result[d] = GcsTokenError /\ ~req[d].sent

\* C9: get_as_json on a 2xx response whose envelope carries an error marker
\* returns UnexpectedJson with the result type's name and the url.
C9_ErrorEnvelope ==
    \A c \in Callers :
        (/\ pc[c] = "done"
         /\ args[c].op = "get_as_json"
         /\ Is2xx(resp[c])
         /\ resp[c].textOk
         /\ resp[c].json = "error") =>
            /\ result[c].kind = "GcsUnexpectedJson"
            /\ result[c].ty = args[c].ty
            /\ result[c].url = args[c].url

C9_Witness ==
    \E c \in Callers :
        /\ pc[c] = "done"
        /\ args[c].op = "get_as_json"
        /\ resp[c].json = "error"
        /\ result[c].kind = "GcsUnexpectedJson"

\* The case of C10: a 2xx response to get_as_json whose body was read and
\* is not a JSON envelope.
UndecodableJson(c) ==
    /\ pc[c] = "done"
    /\ args[c].op = "get_as_json"
    /\ Is2xx(resp[c])
    /\ resp[c].textOk
    /\ resp[c].json = "undecodable"

\* C10 as stated: get_as_json on a 2xx response whose body fails to decode
\* returns UnexpectedJson with the type name and the url.
C10_DecodeFailureIsUnexpectedJson ==
    \A c \in Callers :
        UndecodableJson(c) =>
            /\ result[c].kind = "GcsUnexpectedJson"
            /\ result[c].ty = args[c].ty
            /\ result[c].url = args[c].url

\* C10 as amended: get_as_json on a 2xx response whose body fails to decode
\* returns the transport error, carrying neither type name nor url.
C10_DecodeFailureIsHttpError ==
    \A c \in Callers : UndecodableJson(c) => result[c] = GcsHttpError

C10_Witness == \E c \in Callers : UndecodableJson(c) /\ result[c].kind = "GcsHttpError"

\* What a caller draws from the stream of response r, to its end.
ExpectedItems(r) ==
    LET n == Len(r.chunks)
        k == r.failAt
    IN IF k = 0
       THEN [i \in 1..(n + 1) |->
               IF i <= n THEN [kind |-> "Ok", data |-> r.chunks[i]] ELSE StreamEnd]
       ELSE [i \in 1..(k + 1) |->
               IF i < k THEN [kind |-> "Ok", data |-> r.chunks[i]]
               ELSE IF i = k THEN [kind |-> "GcsHttpError", data |-> 0]
               ELSE StreamEnd]

C12_DeletePostResult ==
    \A c \in Callers :
        (pc[c] = "done" /\ args[c].op \in {"delete", "post"} /\ resp[c] # NoResponse) =>
            /\ result[c] = OkUnit <=> class[c].kind = "Ok"
            /\ class[c].kind # "Ok" => result[c] = class[c]
            /\ (args[c].op = "delete" /\ resp[c].status = 404) =>
                   result[c] = GcsResourceNotFound(args[c].url)

C12_Witness ==
    \E c, d \in Callers :
        /\ pc[c] = "done" /\ args[c].op = "delete" /\ resp[c].status = 404
        /\ result[c].kind = "GcsResourceNotFound"
        /\ pc[d] = "done" /\ args[d].op = "post" /\ resp[d].status = 200
        /\ result[d] = OkUnit

\* C13: a call invokes the generator at most once and sends at most one
\* request; a generator failure ends it with the token error and a transport
\* failure with the transport error, nothing following either.
C13_NoRetry ==
    \A c \in Callers :
        /\ Len(Only(log[c], {"gen"})) <= 1
        /\ Len(Only(log[c], {"send"})) <= 1
        /\ Only(log[c], {"token_err"}) # <<>> =>
              /\ log[c] = <<"gen", "token_err">>
              /\ pc[c] = "done" => result[c] = GcsTokenError
        /\ Only(log[c], {"send_err"}) # <<>> =>
              /\ log[c] = <<"token", "send", "send_err">>
              /\ pc[c] = "done"
              /\ result[c] = GcsHttpError
        /\ (pc[c] = "done" /\ resp[c] # NoResponse /\ class[c].kind = "GcsHttpError") =>
              result[c] = GcsHttpError

C13_Witness ==
    \E c, d \in Callers :
        /\ pc[c] = "done" /\ log[c] = <<"gen", "token_err">> /\ result[c] = GcsTokenError
        /\ pc[d] = "done" /\ log[d] = <<"token", "send", "send_err">>
        /\ result[d] = GcsHttpError

\* The callers holding write access.
Writers == {c \in Callers : pc[c] = "writing"}

\* C14: at most one caller holds write access, no caller holds read access
\* while one holds write access, and readers may share the lock.
C14_ReaderWriterDiscipline ==
    /\ Cardinality(Writers) <= 1
    /\ Writers # {} => readers = {}
    /\ writer # NoCaller <=> Writers = {writer}

C14_Witness == readers = Callers /\ writer = NoCaller

\* C15: a failed generator call makes refresh_token return the token error
\* with the cache and the lock's writer and queue untouched, the cached token
\* still invalid for the next call.
C15_FailedMintKeepsCache ==
    [][\A c \in Callers :
          (pc[c] = "minting" /\ tokRes'[c].kind = "Err") =>
              /\ token' = token
              /\ writer' = writer
              /\ waitq' = waitq
              /\ pc'[c] = "tok_ret"
              /\ ~is_valid(token', now')]_vars

C15_Witness ==
    \E c, d \in Callers :
        /\ tokRes[c].kind = "Err"
        /\ c \notin readers
        /\ token.id = 1
        /\ pc[d] = "minting"

\* C16: a caller whose refresh_token call has returned, or that is in no
\* call, holds no guard of the token lock and is not queued for one.
C16_NoGuardAfterReturn ==
    \A c \in Callers :
        pc[c] \in {"idle", "tok_ret", "sent", "done"} =>
            /\ c \notin readers
            /\ writer # c
            /\ \A i \in 1..Len(waitq) : waitq[i] # c

C16_Witness ==
    \E c, d \in Callers :
        /\ pc[c] = "tok_ret" /\ tokRes[c].path = "fast"
        /\ pc[d] = "tok_ret" /\ tokRes[d].path = "error"

\* C17: a refresh_token call that finds the cached token valid changes
\* neither the cache nor the lock's writer and queue, and the cache changes
\* only in new and in the install of a token the generator handed to a refresh.
C17_CacheFrame ==
    [][/\ \A c \in Callers :
             (pc[c] = "have_read" /\ tokRes'[c].path = "fast") =>
                 token' = token /\ writer' = writer /\ waitq' = waitq
       /\ token' # token =>
             \/ client = "constructing"
             \/ \E c \in Callers :
                   pc[c] = "writing" /\ token' = minted[c] /\ minted[c] \in mints]_vars

C17_Witness ==
    \E c \in Callers : pc[c] = "tok_ret" /\ tokRes[c].path = "fast" /\ token.id = 1

====
